---- MODULE Spec2Model ----
(***************************************************************************)
(* Mini-Shell command-tree evaluator (src/src/cmd.c).                      *)
(*                                                                         *)
(* The model follows parse_command / parse_simple / run_in_parallel /      *)
(* run_on_pipe one code step at a time.  Every OS process is a model       *)
(* process with its own call stack, environment, working directory and     *)
(* descriptor table; fork copies them, waitpid joins, exit terminates.     *)
(***************************************************************************)
EXTENDS Integers, Sequences, FiniteSets, TLC

(***************************************************************************)
(* Bounds of the model.                                                    *)
(***************************************************************************)
\* number of injected OS-call failures (fork, pipe, waitpid, setenv) per run
MaxFaults == 1
\* external programs exit with a code in 0..MaxExitCode
MaxExitCode == 1
\* descriptors 0..MaxFd exist per process; open/pipe fail with EMFILE beyond
MaxFd == 4
\* a pipe holds at most PipeCap bytes; a write to a full pipe blocks
PipeCap == 1

(***************************************************************************)
(* C values.                                                               *)
(***************************************************************************)
\* a null pointer (char * or word_t *)
NULL == "<NULL>"
\* a process is named by the fork that made it: the node whose evaluation
\* forked it and the fork site ("c1", "c2": the children of a runner, "ext":
\* the child of an external command); the shell itself was forked by none
Pid(node, site) == <<node, site>>
Shell == Pid(<<>>, "shell")
NoPid == <<>>

STDIN_FILENO == 0
STDOUT_FILENO == 1
STDERR_FILENO == 2
\* signals that end an external program abnormally
KillSignals == {9}
\* what the kernel delivers on a null-pointer dereference (SIGSEGV)
SegvStatus == 11

\* the signal sent to a process that writes to a pipe nobody can read
SIGPIPE == 13

\* bool -> int conversion at "return run_on_pipe(...)" in an int function
BoolToInt(b) == IF b THEN 1 ELSE 0
\* int -> bool conversion at "return status2;" in a bool function
IntToBool(i) == i # 0

\* x & y on two's-complement ints
RECURSIVE BitAnd(_, _)
BitAnd(x, y) ==
    IF x = 0 \/ y = 0 THEN 0
    ELSE IF x = -1 THEN y
    ELSE IF y = -1 THEN x
    ELSE (x % 2) * (y % 2) + 2 * BitAnd(x \div 2, y \div 2)

\* the wait status of a process that called exit(rc): only rc & 0377 survives
ExitedStatus(rc) == (rc % 256) * 256
\* the wait status of a process killed by signal sig
SignaledStatus(sig) == sig
WIFEXITED(status) == status % 128 = 0
WEXITSTATUS(status) == (status \div 256) % 256

(***************************************************************************)
(* The parsed command tree (word_t, simple_command_t, command_t).          *)
(***************************************************************************)
\* a word_t list: parts with a literal text or a variable name (expand)
Lit(s) == <<[string |-> s, expand |-> FALSE]>>
Var(s) == <<[string |-> s, expand |-> TRUE]>>
\* the null word_t pointer
NoWord == <<>>

EnvNames == {"HOME", "OLDPWD", "X"}

\* get_word: the concatenation of the parts, variables replaced by their
\* value in the environment (empty when unset)
RECURSIVE get_word(_, _)
get_word(w, e) ==
    IF w = NoWord THEN ""
    ELSE (IF w[1].expand
          THEN (IF w[1].string \in EnvNames /\ e[w[1].string] # NULL
                THEN e[w[1].string] ELSE "")
          ELSE w[1].string) \o get_word(Tail(w), e)

IO_REGULAR == {}
IO_OUT_APPEND == "IO_OUT_APPEND"
IO_ERR_APPEND == "IO_ERR_APPEND"

Simple(verb, params, in, out, err, flags) ==
    [op |-> "OP_NONE",
     scmd |-> [verb |-> verb, params |-> params, in |-> in, out |-> out,
               err |-> err, io_flags |-> flags]]
Plain(verb, params) == Simple(verb, params, NoWord, NoWord, NoWord, IO_REGULAR)
Node(op, c1, c2) == [op |-> op, cmd1 |-> c1, cmd2 |-> c2]

Ops == {"OP_SEQUENTIAL", "OP_PARALLEL", "OP_CONDITIONAL_NZERO",
        "OP_CONDITIONAL_ZERO", "OP_PIPE"}

\* a node is named by the path from the root: 1 = cmd1, 2 = cmd2
RECURSIVE NodeAt(_, _)
NodeAt(t, path) ==
    IF path = <<>> THEN t
    ELSE NodeAt(IF Head(path) = 1 THEN t.cmd1 ELSE t.cmd2, Tail(path))

RECURSIVE PathsOf(_)
PathsOf(t) ==
    IF t.op = "OP_NONE" THEN {<<>>}
    ELSE {<<>>} \cup {<<1>> \o q : q \in PathsOf(t.cmd1)}
                \cup {<<2>> \o q : q \in PathsOf(t.cmd2)}

IsPrefix(a, b) == Len(a) <= Len(b) /\ SubSeq(b, 1, Len(a)) = a

\* the leaf kinds, told apart as parse_simple tells them apart
IsCd(s) == s.verb # NoWord /\ s.verb[1].string = "cd"
IsExit(s) == s.verb # NoWord /\ ~IsCd(s) /\ s.verb[1].string \in {"exit", "quit"}
IsAssign(s) ==
    /\ s.verb # NoWord /\ ~IsCd(s) /\ ~IsExit(s)
    /\ Len(s.verb) >= 2 /\ s.verb[2].string = "="
IsExternal(s) == s.verb # NoWord /\ ~IsCd(s) /\ ~IsExit(s) /\ ~IsAssign(s)

(***************************************************************************)
(* The trees the evaluator is run on.                                      *)
(***************************************************************************)
CdArgs == {NoWord, Lit("~"), Lit(""), Lit("-"), Lit("/a"), Lit("/b"), Lit("/nx")}
CdLeaves == {Plain(Lit("cd"), a) : a \in CdArgs}
CdRedirLeaf == Simple(Lit("cd"), Lit("/a"), Lit("i"), Lit("o"), Lit("e"), IO_REGULAR)
ExitLeaf == Plain(Lit("exit"), NoWord)
QuitLeaf == Plain(Lit("quit"), NoWord)
AssignLeaf == Plain(Lit("X") \o Lit("=") \o Lit("v"), NoWord)
ProgLeaf == Plain(Lit("prog"), NoWord)
NoSuchLeaf == Plain(Lit("nosuch"), NoWord)
ProgRedir == Simple(Lit("prog"), NoWord, Lit("i"), Lit("o"), Lit("e"), {IO_OUT_APPEND})
ProgSame == Simple(Lit("prog"), NoWord, NoWord, Lit("f"), Lit("f"), IO_REGULAR)
NullLeaf == Simple(NoWord, NoWord, NoWord, NoWord, NoWord, IO_REGULAR)
NoSuchRedir == Simple(Lit("nosuch"), NoWord, NoWord, NoWord, Lit("e"), IO_REGULAR)

\* the programs execvp finds: prog does no I/O and ends with any exit code
\* or by a signal; echo writes "a" then "b" to its standard output; cat
\* copies its standard input to its standard output up to end-of-stream;
\* both writes "a" to its standard output and then "b" to its standard error
Installed == {"prog", "echo", "cat", "both"}
Output(fd, byte) == [fd |-> fd, byte |-> byte]
\* a process that runs no program
NoProg ==
    [name |-> "", todo |-> <<>>, reads |-> FALSE, eof |-> FALSE,
     out |-> <<>>, in |-> <<>>]
\* the program image execvp starts: the writes it has to do, whether it reads
\* its standard input, and what it has written to fd 1 and read from fd 0
Image(name) ==
    [NoProg EXCEPT
        !.name = name,
        !.todo = IF name = "echo"
                 THEN <<Output(STDOUT_FILENO, "a"), Output(STDOUT_FILENO, "b")>>
                 ELSE IF name = "both"
                 THEN <<Output(STDOUT_FILENO, "a"), Output(STDERR_FILENO, "b")>>
                 ELSE <<>>,
        !.reads = (name = "cat")]
ExitCodes(name) == IF name = "prog" THEN 0..MaxExitCode ELSE {0}

EchoLeaf == Plain(Lit("echo"), NoWord)
CatLeaf == Plain(Lit("cat"), NoWord)
\* cat > c
CatTo == Simple(Lit("cat"), NoWord, NoWord, Lit("c"), NoWord, IO_REGULAR)
\* both > f 2> f, with every combination of the append flags
BothSame(flags) == Simple(Lit("both"), NoWord, NoWord, Lit("f"), Lit("f"), flags)
BothLeaves == {BothSame(fl) : fl \in SUBSET {IO_OUT_APPEND, IO_ERR_APPEND}}
\* both > f 2> g
BothApart == Simple(Lit("both"), NoWord, NoWord, Lit("f"), Lit("g"), IO_REGULAR)

AllLeaves == CdLeaves \cup {CdRedirLeaf, ExitLeaf, QuitLeaf, AssignLeaf, ProgLeaf,
                            NoSuchLeaf, NoSuchRedir, ProgRedir, ProgSame, NullLeaf}
CoreLeaves == {ProgLeaf, ExitLeaf, AssignLeaf, Plain(Lit("cd"), Lit("/nx"))}
Depth1 == {Node(op, a, b) : op \in Ops, a \in CoreLeaves, b \in CoreLeaves}
Inner == {Node(op, a, ProgLeaf) : op \in {"OP_PARALLEL", "OP_PIPE"},
                                  a \in {ProgLeaf, ExitLeaf}}
Depth2 == {Node(op, x, ProgLeaf) : op \in Ops \ {"OP_PARALLEL", "OP_PIPE"}, x \in Inner}
          \cup {Node("OP_PIPE", Node("OP_PIPE", ProgLeaf, ProgLeaf), AssignLeaf),
                Node("OP_PARALLEL", Node("OP_PARALLEL", ExitLeaf, ProgLeaf), AssignLeaf)}
          \cup {Node("OP_SEQUENTIAL", AssignLeaf, x) : x \in Inner}
\* cd A ; cd B ; cd -
CdRoundTrips ==
    {Node("OP_SEQUENTIAL",
          Node("OP_SEQUENTIAL", Plain(Lit("cd"), Lit(a)), Plain(Lit("cd"), Lit(b))),
          Plain(Lit("cd"), Lit("-"))) : a \in {"/a", "/b"}, b \in {"/a", "/b"}}
\* pipelines of programs that write and read
Pipelines ==
    {Node("OP_PIPE", EchoLeaf, CatLeaf),
     Node("OP_PIPE", EchoLeaf, CatTo),
     Node("OP_PIPE", EchoLeaf, ProgLeaf),
     Node("OP_PIPE", Node("OP_PIPE", EchoLeaf, CatLeaf), CatTo),
     Node("OP_PIPE", EchoLeaf, Node("OP_PIPE", CatLeaf, CatLeaf))}
IoTrees == {EchoLeaf, CatLeaf, BothApart} \cup BothLeaves \cup Pipelines
Trees == AllLeaves \cup Depth1 \cup Depth2 \cup CdRoundTrips \cup IoTrees

\* every path of every tree
AllPaths == {<<>>, <<1>>, <<2>>, <<1, 1>>, <<1, 2>>, <<2, 1>>, <<2, 2>>}

\* the trees run under every environment and directory layout
CdTrees == CdLeaves \cup CdRoundTrips

(***************************************************************************)
(* The file system and the environment seen by chdir / getenv / open.      *)
(***************************************************************************)
BaseDirs == {"/start", "/home", "/a", "/b", "/old"}
AbsPaths == BaseDirs \cup {"/nx"}

\* the directory or file a path names, seen from working directory wd
\* (NULL: the path names nothing: a null pointer or the empty string)
Resolve(wd, path) ==
    IF path = NULL \/ path = "" THEN NULL
    ELSE IF path \in AbsPaths THEN path
    ELSE wd \o "/" \o path

\* chdir(path): [rc, cwd] with rc = 0 and the new directory, or -1
chdir(wd, path, ds) ==
    IF Resolve(wd, path) \in ds
    THEN [rc |-> 0, cwd |-> Resolve(wd, path)]
    ELSE [rc |-> -1, cwd |-> wd]

getenv(e, name) == e[name]

(***************************************************************************)
(* Descriptor tables: open, dup2, close.                                   *)
(***************************************************************************)
Fds == 0..MaxFd
\* a pipe is named by the PIPE node whose run_on_pipe created it
NoPipe == <<0>>
\* a descriptor refers to nothing, to the terminal, to one end of a pipe, or
\* to an open file description: entry ofd of the table ofds, which holds the
\* file offset shared by every descriptor duplicated from it
Closed == [k |-> "closed", pipe |-> NoPipe, path |-> "", mode |-> "", ofd |-> 0]
Tty == [k |-> "tty", pipe |-> NoPipe, path |-> "", mode |-> "rw", ofd |-> 0]
PipeEnd(id, mode) ==
    [k |-> "pipe", pipe |-> id, path |-> "", mode |-> mode, ofd |-> 0]
File(path, mode, id) ==
    [k |-> "file", pipe |-> NoPipe, path |-> path, mode |-> mode, ofd |-> id]

InitFds == [fd \in Fds |-> IF fd <= STDERR_FILENO THEN Tty ELSE Closed]
NoFds == [fd \in Fds |-> Closed]

FreeFds(f) == {fd \in Fds : f[fd] = Closed}
\* the descriptor open() or pipe() hands out next, -1 when there is none
LowestFree(f) ==
    IF FreeFds(f) = {} THEN -1
    ELSE CHOOSE fd \in FreeFds(f) : \A g \in FreeFds(f) : fd <= g

close(f, fd) == IF fd \in Fds THEN [f EXCEPT ![fd] = Closed] ELSE f
dup2(f, old, new) ==
    IF old \in Fds /\ f[old] # Closed THEN [f EXCEPT ![new] = f[old]] ELSE f

\* a new open file description on path: offset 0, O_APPEND or not
Description(path, mode) == [path |-> path, off |-> 0, app |-> mode = "a"]

\* open(path, O_RDONLY) on st = [fds, files, ofds]: the descriptor fd and the
\* new st; fails when the file is missing
OpenRead(st, wd, path) ==
    LET r == Resolve(wd, path)
        fd == IF r \in DOMAIN st.files THEN LowestFree(st.fds) ELSE -1
        id == Len(st.ofds) + 1
    IN  IF fd = -1
        THEN [fd |-> -1, fds |-> st.fds, files |-> st.files, ofds |-> st.ofds]
        ELSE [fd |-> fd,
              fds |-> [st.fds EXCEPT ![fd] = File(r, "r", id)],
              files |-> st.files,
              ofds |-> Append(st.ofds, Description(r, "r"))]

\* open(path, O_WRONLY | O_CREAT | O_TRUNC or O_APPEND, 0644): mode "w"
\* empties the file, mode "a" keeps it; both create it
OpenWrite(st, wd, path, mode) ==
    LET r == Resolve(wd, path)
        fd == IF r # NULL THEN LowestFree(st.fds) ELSE -1
        id == Len(st.ofds) + 1
    IN  IF fd = -1
        THEN [fd |-> -1, fds |-> st.fds, files |-> st.files, ofds |-> st.ofds]
        ELSE [fd |-> fd,
              fds |-> [st.fds EXCEPT ![fd] = File(r, mode, id)],
              files |-> IF mode = "a" /\ r \in DOMAIN st.files THEN st.files
                        ELSE (r :> <<>>) @@ st.files,
              ofds |-> Append(st.ofds, Description(r, mode))]

\* write(2) of one byte at offset off of a file: bytes beyond the end leave
\* a hole of zero bytes
WriteAt(content, off, byte) ==
    IF off < Len(content) THEN [content EXCEPT ![off + 1] = byte]
    ELSE content \o [i \in 1..(off - Len(content)) |-> "0"] \o <<byte>>

(***************************************************************************)
(* shell_cd and the redirections of parse_simple.                          *)
(***************************************************************************)
\* shell_cd(dir): the set of possible outcomes [ret, cwd, segv].  With
\* dir == NULL the first test passes and, once chdir(HOME) has succeeded,
\* line 30 reads dir->string through the null pointer: undefined behaviour,
\* either a SIGSEGV or a read of whatever is mapped there (which then
\* names no directory).
shell_cd(dir, wd, e, ds) ==
    LET first == dir = NoWord \/ dir[1].string \in {"~", ""}
        h == chdir(wd, getenv(e, "HOME"), ds)
        wd1 == IF first THEN h.cwd ELSE wd
    IN  IF first /\ h.rc = -1
        THEN {[ret |-> FALSE, cwd |-> wd, segv |-> FALSE]}
        ELSE IF dir = NoWord
        THEN {[ret |-> FALSE, cwd |-> wd1, segv |-> TRUE],
              [ret |-> FALSE, cwd |-> wd1, segv |-> FALSE]}
        ELSE LET dash == dir[1].string = "-"
                 o == chdir(wd1, getenv(e, "OLDPWD"), ds)
                 wd2 == IF dash THEN o.cwd ELSE wd1
                 l == chdir(wd2, dir[1].string, ds)
             IN  IF dash /\ o.rc = -1
                 THEN {[ret |-> FALSE, cwd |-> wd1, segv |-> FALSE]}
                 ELSE IF l.rc = -1
                 THEN {[ret |-> FALSE, cwd |-> wd2, segv |-> FALSE]}
                 ELSE {[ret |-> TRUE, cwd |-> l.cwd, segv |-> FALSE]}

\* install the descriptor o.fd of an open() on the standard stream std and
\* close it: "dup2(fd, std); close(fd);"
Install(o, std) ==
    [fds |-> close(dup2(o.fds, o.fd, std), o.fd), files |-> o.files, ofds |-> o.ofds]
\* "close(fd);" alone
Discard(o) == [fds |-> close(o.fds, o.fd), files |-> o.files, ofds |-> o.ofds]

\* lines 68-71, 73-76, 78-82: the redirections of a cd leaf, on
\* st = [fds, files, ofds]
CdIn(s, st, wd) ==
    IF s.in = NoWord THEN st
    ELSE Discard(OpenRead(st, wd, s.in[1].string))
CdOut(s, st, wd) ==
    IF s.out = NoWord THEN st
    ELSE Discard(OpenWrite(st, wd, s.out[1].string, "w"))
CdErr(s, st, wd) ==
    IF s.err = NoWord THEN st
    ELSE Install(OpenWrite(st, wd, s.err[1].string, "w"), STDERR_FILENO)
CdRedirect(s, st, wd) == CdErr(s, CdOut(s, CdIn(s, st, wd), wd), wd)

\* lines 112-116, 118-125, 127-134: the redirections of an external command,
\* in the child, on st = [fds, files, ofds]
ExtIn(s, st, wd, e) ==
    IF s.in = NoWord THEN st
    ELSE Install(OpenRead(st, wd, get_word(s.in, e)), STDIN_FILENO)
ExtOut(s, st, wd, e) ==
    IF s.out = NoWord THEN st
    ELSE Install(OpenWrite(st, wd, get_word(s.out, e),
                           IF IO_OUT_APPEND \in s.io_flags THEN "a" ELSE "w"),
                 STDOUT_FILENO)
ExtErr(s, st, wd, e) ==
    IF s.err = NoWord THEN st
    ELSE Install(OpenWrite(st, wd, get_word(s.err, e),
                           IF IO_ERR_APPEND \in s.io_flags THEN "a" ELSE "w"),
                 STDERR_FILENO)

\* a slip: no special case for identical out and err
ExtSameLeftOut(s, st, wd, e) == st

\* lines 136-141: out and err with the same literal text: the path is opened
\* once more, truncated, and that one description is installed on both
\* standard output and standard error
ExtSame(s, st, wd, e) ==
    IF s.out # NoWord /\ s.err # NoWord /\ s.out[1].string = s.err[1].string
    THEN LET o == OpenWrite(st, wd, get_word(s.out, e), "w")
         IN  Install([o EXCEPT !.fds = dup2(o.fds, o.fd, STDOUT_FILENO)],
                     STDERR_FILENO)
    ELSE st
ExtRedirect(s, st, wd, e) ==
    ExtSame(s, ExtErr(s, ExtOut(s, ExtIn(s, st, wd, e), wd, e), wd, e), wd, e)

(***************************************************************************)
(* State.                                                                  *)
(***************************************************************************)
VARIABLES
    tree,       \* the command tree handed to parse_command
    dirs,       \* the directories that exist
    files,      \* the regular files that exist: path -> content
    ofds,       \* the open file descriptions made so far: path, offset, O_APPEND
    pipes,      \* per PIPE node: the bytes in its pipe, written and not yet read
    prog,       \* per process: the program it runs after execvp
    pstate,     \* per process: "run", "prog", "zombie", "reaped"
    stack,      \* per process: the call stack, one frame per parse_command call
    env,        \* per process: the environment
    cwd,        \* per process: the working directory
    fds,        \* per process: the descriptor table
    wstatus,    \* per process: the wait status once it has terminated
    ppid,       \* per process: the process that forked it
    nfaults,    \* OS-call failures injected so far
    npipes,     \* pipes created so far
    diag,       \* diagnostics written by fprintf(stderr, ...)
    evals,      \* per node: how many times parse_command was entered on it
    evalBy,     \* per node: the process that entered it last
    rets,       \* per node: how many times it returned, and the last value
    died        \* per process: how it terminated, and the argument of exit

vars == <<tree, dirs, files, ofds, pipes, prog, pstate, stack, env, cwd, fds, wstatus, ppid,
          nfaults, npipes, diag, evals, evalBy, rets, died>>

\* one frame: the locals of parse_command and of the runner it calls
Frame(node, pc) ==
    [node |-> node, pc |-> pc, rc |-> 0, pid1 |-> NoPid, pid2 |-> NoPid,
     status1 |-> 0, status2 |-> 0, fd0 |-> -1, fd1 |-> -1, rv |-> 0,
     brv |-> FALSE]

Alive == [how |-> "alive", arg |-> 0]

InitEnvs ==
    {[n \in EnvNames |-> IF n = "HOME" THEN h ELSE IF n = "OLDPWD" THEN o ELSE NULL] :
        h \in {NULL, "/home"}, o \in {NULL, "/old"}}
DefaultEnv == [n \in EnvNames |-> IF n = "HOME" THEN "/home" ELSE NULL]

Init ==
    /\ tree \in Trees
    /\ dirs \in (IF tree \in CdTrees THEN {BaseDirs, BaseDirs \cup {"/home/~"}}
                 ELSE {BaseDirs})
    /\ files = <<>>
    /\ ofds = <<>>
    /\ pipes = [n \in AllPaths |-> <<>>]
    /\ prog = (Shell :> NoProg)
    /\ pstate = (Shell :> "run")
    /\ stack = (Shell :> <<Frame(<<>>, "start")>>)
    /\ \E e \in (IF tree \in CdTrees THEN InitEnvs ELSE {DefaultEnv}) :
          env = (Shell :> e)
    /\ cwd = (Shell :> "/start")
    /\ fds = (Shell :> InitFds)
    /\ wstatus = (Shell :> 0)
    /\ ppid = (Shell :> NoPid)
    /\ nfaults = 0
    /\ npipes = 0
    /\ diag = {}
    /\ evals = [n \in AllPaths |-> 0]
    /\ evalBy = [n \in AllPaths |-> NoPid]
    /\ rets = [n \in AllPaths |-> [n |-> 0, v |-> 0]]
    /\ died = (Shell :> Alive)

(***************************************************************************)
(* Helpers on stacks and processes.                                        *)
(***************************************************************************)
Top(p) == stack[p][Len(stack[p])]
At(p, pc) == pstate[p] = "run" /\ Top(p).pc = pc
\* the callee on top has returned into a caller waiting at pc
Returned(p, pc) ==
    /\ pstate[p] = "run" /\ Len(stack[p]) >= 2
    /\ Top(p).pc = "ret"
    /\ stack[p][Len(stack[p]) - 1].pc = pc
Caller(p) == stack[p][Len(stack[p]) - 1]

SetTop(st, p, f) == [st EXCEPT ![p] = [@ EXCEPT ![Len(@)] = f]]
Push(st, p, f) == [st EXCEPT ![p] = Append(@, f)]
Pop(st, p) == [st EXCEPT ![p] = SubSeq(@, 1, Len(@) - 1)]

\* "return v;" from the frame f
Ret(f, v) == [f EXCEPT !.pc = "ret", !.rv = v]
Count(r, node, v) == [r EXCEPT ![node] = [n |-> @.n + 1, v |-> v]]

Procs == DOMAIN pstate
CanFault == nfaults < MaxFaults

\* fork() succeeded in p: the child c starts in frame cf with a copy of the
\* parent's environment, directory and descriptors pf; the parent goes on in pfr
Spawn(p, c, cf, pfr, pf) ==
    /\ c \notin Procs
    /\ pstate' = (c :> "run") @@ pstate
    /\ stack' = (c :> <<cf>>) @@ SetTop(stack, p, pfr)
    /\ env' = (c :> env[p]) @@ env
    /\ cwd' = (c :> cwd[p]) @@ cwd
    /\ fds' = (c :> pf) @@ [fds EXCEPT ![p] = pf]
    /\ ppid' = (c :> p) @@ ppid
    /\ wstatus' = (c :> 0) @@ wstatus
    /\ died' = (c :> Alive) @@ died
    /\ prog' = (c :> NoProg) @@ prog
    /\ UNCHANGED nfaults

\* fork() returned -1 (EAGAIN, ENOMEM): an injected failure
ForkFails == CanFault /\ nfaults' = nfaults + 1

\* the process p terminates with wait status st; its descriptors are closed
Terminate(p, st, how, arg) ==
    /\ pstate' = [pstate EXCEPT ![p] = "zombie"]
    /\ wstatus' = [wstatus EXCEPT ![p] = st]
    /\ fds' = [fds EXCEPT ![p] = NoFds]
    /\ died' = [died EXCEPT ![p] = [how |-> how, arg |-> arg]]

\* waitpid(c, &status, 0) returned c: the child is reaped
Reap(c) ==
    /\ pstate[c] = "zombie"
    /\ pstate' = [pstate EXCEPT ![c] = "reaped"]
    /\ UNCHANGED nfaults

\* waitpid returned -1 (EINTR, ECHILD): an injected failure
WaitFails == CanFault /\ nfaults' = nfaults + 1

(***************************************************************************)
(* parse_command: entry and the sequential / conditional operators.        *)
(***************************************************************************)
LeafPc(s) ==
    IF IsCd(s) THEN "cd"
    ELSE IF IsExit(s) THEN "exit"
    ELSE IF IsAssign(s) THEN "assign"
    ELSE "ext_fork"

\* lines 263-309 and 55-95: dispatch on the operator and on the verb
ParseCommand(p) ==
    /\ At(p, "start")
    /\ LET f == Top(p)
           c == NodeAt(tree, f.node)
       IN  /\ evals' = [evals EXCEPT ![f.node] = @ + 1]
           /\ evalBy' = [evalBy EXCEPT ![f.node] = p]
           /\ IF c.op = "OP_NONE"
              THEN IF c.scmd.verb = NoWord
                   THEN /\ stack' = SetTop(stack, p, Ret(f, 0))
                        /\ rets' = Count(rets, f.node, 0)
                   ELSE /\ stack' = SetTop(stack, p, [f EXCEPT !.pc = LeafPc(c.scmd)])
                        /\ UNCHANGED rets
              ELSE /\ UNCHANGED rets
                   /\ IF c.op = "OP_PARALLEL"
                      THEN stack' = SetTop(stack, p, [f EXCEPT !.pc = "par_fork1"])
                      ELSE IF c.op = "OP_PIPE"
                      THEN stack' = SetTop(stack, p, [f EXCEPT !.pc = "pipe_pipe"])
                      ELSE stack' = Push(SetTop(stack, p, [f EXCEPT !.pc = "call1"]),
                                         p, Frame(Append(f.node, 1), "start"))
    /\ UNCHANGED <<tree, dirs, pipes, prog, files, ofds, pstate, env, cwd, fds, wstatus, ppid,
                   nfaults, npipes, diag, died>>

\* a slip: the statuses combined with && instead of &
SeqCombineLogical(rc1, rc2) == BoolToInt(rc1 # 0 /\ rc2 # 0)

\* line 280: rc &= parse_command(c->cmd2, ...)
SeqCombine(rc1, rc2) == BitAnd(rc1, rc2)

\* a slip: the two conditional operators with their tests exchanged
RunsSecondSwapped(op, rc) ==
    \/ op = "OP_SEQUENTIAL"
    \/ op = "OP_CONDITIONAL_NZERO" /\ rc = 0
    \/ op = "OP_CONDITIONAL_ZERO" /\ rc # 0

\* lines 292 and 301: whether cmd2 is evaluated after cmd1 returned rc
RunsSecond(op, rc) ==
    \/ op = "OP_SEQUENTIAL"
    \/ op = "OP_CONDITIONAL_NZERO" /\ rc # 0
    \/ op = "OP_CONDITIONAL_ZERO" /\ rc = 0

\* lines 279, 291-294, 300-303: cmd1 has returned
AfterCmd1(p) ==
    /\ Returned(p, "call1")
    /\ LET f == Caller(p)
           c == NodeAt(tree, f.node)
           rc == Top(p).rv
       IN  IF RunsSecond(c.op, rc)
           THEN /\ stack' = Push(SetTop(Pop(stack, p), p,
                                        [f EXCEPT !.pc = "call2", !.rc = rc]),
                                 p, Frame(Append(f.node, 2), "start"))
                /\ UNCHANGED rets
           ELSE /\ stack' = SetTop(Pop(stack, p), p, Ret([f EXCEPT !.rc = rc], rc))
                /\ rets' = Count(rets, f.node, rc)
    /\ UNCHANGED <<tree, dirs, pipes, prog, files, ofds, pstate, env, cwd, fds, wstatus, ppid,
                   nfaults, npipes, diag, evals, evalBy, died>>

\* lines 280-281, 293, 302: cmd2 has returned
AfterCmd2(p) ==
    /\ Returned(p, "call2")
    /\ LET f == Caller(p)
           c == NodeAt(tree, f.node)
           rc == IF c.op = "OP_SEQUENTIAL" THEN SeqCombine(f.rc, Top(p).rv)
                 ELSE Top(p).rv
       IN  /\ stack' = SetTop(Pop(stack, p), p, Ret([f EXCEPT !.rc = rc], rc))
           /\ rets' = Count(rets, f.node, rc)
    /\ UNCHANGED <<tree, dirs, pipes, prog, files, ofds, pstate, env, cwd, fds, wstatus, ppid,
                   nfaults, npipes, diag, evals, evalBy, died>>

(***************************************************************************)
(* parse_simple: the builtins and the environment assignment.              *)
(***************************************************************************)
\* line 84: return !shell_cd(s->params)
CdStatus(ret) == BoolToInt(~ret)

\* lines 65-85: the cd builtin, redirections included
BuiltinCd(p) ==
    /\ At(p, "cd")
    /\ LET f == Top(p)
           s == NodeAt(tree, f.node).scmd
           rd == CdRedirect(s, [fds |-> fds[p], files |-> files, ofds |-> ofds],
                            cwd[p])
       IN  \E o \in shell_cd(s.params, cwd[p], env[p], dirs) :
              /\ files' = rd.files
              /\ ofds' = rd.ofds
              /\ cwd' = [cwd EXCEPT ![p] = o.cwd]
              /\ IF o.segv
                 THEN /\ Terminate(p, SignaledStatus(SegvStatus), "segv", 0)
                      /\ UNCHANGED <<stack, rets>>
                 ELSE /\ fds' = [fds EXCEPT ![p] = rd.fds]
                      /\ stack' = SetTop(stack, p, Ret(f, CdStatus(o.ret)))
                      /\ rets' = Count(rets, f.node, CdStatus(o.ret))
                      /\ UNCHANGED <<pstate, wstatus, died>>
    /\ UNCHANGED <<tree, dirs, pipes, prog, env, ppid, nfaults, npipes, diag, evals, evalBy>>

\* a slip: shell_exit returns its placeholder value instead of exiting
shell_exit_returns(p) ==
    /\ At(p, "exit")
    /\ stack' = SetTop(stack, p, Ret(Top(p), -1))
    /\ rets' = Count(rets, Top(p).node, -1)
    /\ UNCHANGED <<tree, dirs, pipes, prog, files, ofds, pstate, env, cwd, fds, wstatus, ppid,
                   nfaults, npipes, diag, evals, evalBy, died>>

\* lines 43-49 and 87-88: exit(EXIT_SUCCESS) ends the calling process
shell_exit(p) ==
    /\ At(p, "exit")
    /\ Terminate(p, ExitedStatus(0), "builtin_exit", 0)
    /\ UNCHANGED <<tree, dirs, pipes, prog, files, ofds, stack, env, cwd, ppid, nfaults, npipes,
                   diag, evals, evalBy, rets>>

\* a slip: the environment is one object shared by all processes
setenv_shared(e, p, name, value) ==
    [q \in DOMAIN e |-> [e[q] EXCEPT ![name] = value]]

\* setenv(name, value, 1) in the process p: only p's environment changes
setenv(e, p, name, value) == [e EXCEPT ![p][name] = value]

\* lines 93-95: name=value, return setenv(name, value, 1)
Assignment(p) ==
    /\ At(p, "assign")
    /\ LET f == Top(p)
           s == NodeAt(tree, f.node).scmd
           name == s.verb[1].string
           value == get_word(SubSeq(s.verb, 3, Len(s.verb)), env[p])
       IN  \/ /\ env' = setenv(env, p, name, value)
              /\ stack' = SetTop(stack, p, Ret(f, 0))
              /\ rets' = Count(rets, f.node, 0)
              /\ UNCHANGED nfaults
           \/ /\ CanFault
              /\ nfaults' = nfaults + 1
              /\ stack' = SetTop(stack, p, Ret(f, -1))
              /\ rets' = Count(rets, f.node, -1)
              /\ UNCHANGED env
    /\ UNCHANGED <<tree, dirs, pipes, prog, files, ofds, pstate, cwd, fds, wstatus, ppid, npipes,
                   diag, evals, evalBy, died>>

(***************************************************************************)
(* parse_simple: external commands.                                        *)
(***************************************************************************)
\* lines 104-109: fork
ExtFork(p) ==
    /\ At(p, "ext_fork")
    /\ LET f == Top(p)
       IN  \/ /\ Spawn(p, Pid(f.node, "ext"), Frame(f.node, "ext_child"),
                       [f EXCEPT !.pc = "ext_wait", !.pid1 = Pid(f.node, "ext")], fds[p])
              /\ UNCHANGED rets
           \/ /\ ForkFails
              /\ stack' = SetTop(stack, p, Ret(f, -1))
              /\ rets' = Count(rets, f.node, -1)
              /\ UNCHANGED <<pstate, env, cwd, fds, wstatus, ppid, died, prog>>
    /\ UNCHANGED <<tree, dirs, files, ofds, pipes, npipes, diag, evals, evalBy>>

\* a slip: the failed child says nothing and exits with EXIT_SUCCESS
ExecFailedQuietly(p, s, to) ==
    /\ UNCHANGED diag
    /\ Terminate(p, ExitedStatus(0), "exec_failed", 0)

\* lines 144-147: execvp returned -1: fprintf(stderr, "Execution failed for
\* '%s'\n", s->verb->string) on the stream `to`, then exit(EXIT_FAILURE)
ExecFailed(p, s, to) ==
    /\ diag' = diag \cup {[pid |-> p, cmd |-> s.verb[1].string, to |-> to]}
    /\ Terminate(p, ExitedStatus(1), "exec_failed", 1)

\* lines 111-148: the child redirects and replaces its image, or reports
\* the failure on stderr and exits with EXIT_FAILURE
ExtChild(p) ==
    /\ At(p, "ext_child")
    /\ LET s == NodeAt(tree, Top(p).node).scmd
           rd == ExtRedirect(s, [fds |-> fds[p], files |-> files, ofds |-> ofds],
                             cwd[p], env[p])
       IN  /\ files' = rd.files
           /\ ofds' = rd.ofds
           /\ IF s.verb[1].string \in Installed
              THEN /\ pstate' = [pstate EXCEPT ![p] = "prog"]
                   /\ fds' = [fds EXCEPT ![p] = rd.fds]
                   /\ prog' = [prog EXCEPT ![p] = Image(s.verb[1].string)]
                   /\ UNCHANGED <<wstatus, died, diag>>
              ELSE /\ ExecFailed(p, s, rd.fds[STDERR_FILENO])
                   /\ UNCHANGED prog
    /\ UNCHANGED <<tree, dirs, pipes, stack, env, cwd, ppid, nfaults, npipes, evals,
                   evalBy, rets>>

\* the processes that hold the read end (mode "r") or the write end (mode
\* "w") of the pipe k
Holders(k, mode) ==
    {q \in Procs : \E fd \in Fds : fds[q][fd] = PipeEnd(k, mode)}

\* write(fd, &byte, 1) by the program of p: into a pipe when there is room
\* (SIGPIPE when no process holds the read end), into a file at the offset
\* of the open file description (at the end with O_APPEND), to the terminal;
\* EBADF on a descriptor that is closed or not open for writing
ProgWrite(p) ==
    /\ pstate[p] = "prog" /\ prog[p].todo # <<>>
    /\ LET w == Head(prog[p].todo)
           d == fds[p][w.fd]
           failed == [prog EXCEPT ![p].todo = Tail(@)]
           done == [failed EXCEPT ![p].out = IF w.fd = STDOUT_FILENO
                                             THEN Append(@, w.byte) ELSE @]
       IN  IF d.k = "pipe" /\ d.mode = "w"
           THEN IF Holders(d.pipe, "r") = {}
                THEN /\ Terminate(p, SignaledStatus(SIGPIPE), "signal", SIGPIPE)
                     /\ UNCHANGED <<prog, pipes, files, ofds>>
                ELSE /\ Len(pipes[d.pipe]) < PipeCap
                     /\ pipes' = [pipes EXCEPT ![d.pipe] = Append(@, w.byte)]
                     /\ prog' = done
                     /\ UNCHANGED <<files, ofds, pstate, wstatus, fds, died>>
           ELSE IF d.k = "file" /\ d.mode # "r"
           THEN LET o == ofds[d.ofd]
                    off == IF o.app THEN Len(files[o.path]) ELSE o.off
                IN  /\ files' = [files EXCEPT ![o.path] = WriteAt(@, off, w.byte)]
                    /\ ofds' = [ofds EXCEPT ![d.ofd].off = off + 1]
                    /\ prog' = done
                    /\ UNCHANGED <<pipes, pstate, wstatus, fds, died>>
           ELSE /\ prog' = IF d.k = "tty" THEN done ELSE failed
                /\ UNCHANGED <<pipes, files, ofds, pstate, wstatus, fds, died>>
    /\ UNCHANGED <<tree, dirs, stack, env, cwd, ppid, nfaults, npipes, diag,
                   evals, evalBy, rets>>

\* read(STDIN_FILENO, &byte, 1) by the program of p: the next byte of the
\* pipe, end-of-stream once the pipe is empty and no process holds its write
\* end (blocked until then); the next byte of a file; end-of-stream on the
\* terminal (no input typed) and on a descriptor that cannot be read
ProgRead(p) ==
    /\ pstate[p] = "prog" /\ prog[p].reads /\ ~prog[p].eof /\ prog[p].todo = <<>>
    /\ LET d == fds[p][STDIN_FILENO]
           Got(b) == [prog EXCEPT ![p].in = Append(@, b),
                                  ![p].todo = <<Output(STDOUT_FILENO, b)>>]
           Eof == [prog EXCEPT ![p].eof = TRUE]
       IN  IF d.k = "pipe" /\ d.mode = "r"
           THEN /\ UNCHANGED ofds
                /\ IF pipes[d.pipe] # <<>>
                   THEN /\ pipes' = [pipes EXCEPT ![d.pipe] = Tail(@)]
                        /\ prog' = Got(Head(pipes[d.pipe]))
                   ELSE /\ Holders(d.pipe, "w") = {}
                        /\ prog' = Eof
                        /\ UNCHANGED pipes
           ELSE IF d.k = "file" /\ d.mode = "r"
                   /\ ofds[d.ofd].off < Len(files[d.path])
           THEN /\ prog' = Got(files[d.path][ofds[d.ofd].off + 1])
                /\ ofds' = [ofds EXCEPT ![d.ofd].off = @ + 1]
                /\ UNCHANGED pipes
           ELSE /\ prog' = Eof
                /\ UNCHANGED <<pipes, ofds>>
    /\ UNCHANGED <<tree, dirs, files, pstate, stack, env, cwd, fds, wstatus,
                   ppid, nfaults, npipes, diag, evals, evalBy, rets, died>>

\* the program run by execvp ends once it has nothing left to write and, if
\* it reads, has seen end-of-stream: with an exit code, or (prog) killed by a
\* signal
ProgramEnds(p) ==
    /\ pstate[p] = "prog" /\ prog[p].todo = <<>>
    /\ prog[p].reads => prog[p].eof
    /\ \/ \E code \in ExitCodes(prog[p].name) :
             Terminate(p, ExitedStatus(code), "program", code)
       \/ \E sig \in KillSignals :
             /\ prog[p].name = "prog"
             /\ Terminate(p, SignaledStatus(sig), "signal", sig)
    /\ UNCHANGED <<tree, dirs, pipes, prog, files, ofds, stack, env, cwd, ppid, nfaults, npipes,
                   diag, evals, evalBy, rets>>

\* lines 154-156: what parse_simple returns for the wait status of its child
ExtStatus(status) == IF WIFEXITED(status) THEN status ELSE 0

\* lines 150-156: the parent waits for its child
ExtWait(p) ==
    /\ At(p, "ext_wait")
    /\ LET f == Top(p)
       IN  \/ /\ Reap(f.pid1)
              /\ stack' = SetTop(stack, p,
                                 Ret([f EXCEPT !.status1 = wstatus[f.pid1]],
                                     ExtStatus(wstatus[f.pid1])))
              /\ rets' = Count(rets, f.node, ExtStatus(wstatus[f.pid1]))
           \/ /\ WaitFails
              /\ stack' = SetTop(stack, p, Ret(f, -1))
              /\ rets' = Count(rets, f.node, -1)
              /\ UNCHANGED pstate
    /\ UNCHANGED <<tree, dirs, pipes, prog, files, ofds, env, cwd, fds, wstatus, ppid, npipes,
                   diag, evals, evalBy, died>>

(***************************************************************************)
(* run_in_parallel and run_on_pipe.                                        *)
(***************************************************************************)
\* "return false;" from a runner, and parse_command returning that bool
RunnerFails(p, f) ==
    /\ stack' = SetTop(stack, p, Ret([f EXCEPT !.brv = FALSE], BoolToInt(FALSE)))
    /\ rets' = Count(rets, f.node, BoolToInt(FALSE))

\* a slip: || instead of &&
ParResultOr(status1, status2) == status1 # 0 \/ status2 # 0

\* line 198: return status1 && status2
ParResult(status1, status2) == status1 # 0 /\ status2 # 0
\* line 253: return status2 (an int returned as bool)
PipeResult(status1, status2) == IntToBool(status2)

\* lines 172-175: first fork of run_in_parallel
ParFork1(p) ==
    /\ At(p, "par_fork1")
    /\ LET f == Top(p)
       IN  \/ /\ Spawn(p, Pid(f.node, "c1"), Frame(f.node, "par_child1"),
                       [f EXCEPT !.pc = "par_fork2", !.pid1 = Pid(f.node, "c1")], fds[p])
              /\ UNCHANGED rets
           \/ /\ ForkFails
              /\ RunnerFails(p, f)
              /\ UNCHANGED <<pstate, env, cwd, fds, wstatus, ppid, died, prog>>
    /\ UNCHANGED <<tree, dirs, files, ofds, pipes, npipes, diag, evals, evalBy>>

\* lines 182-185: second fork of run_in_parallel
ParFork2(p) ==
    /\ At(p, "par_fork2")
    /\ LET f == Top(p)
       IN  \/ /\ Spawn(p, Pid(f.node, "c2"), Frame(f.node, "par_child2"),
                       [f EXCEPT !.pc = "par_wait1", !.pid2 = Pid(f.node, "c2")], fds[p])
              /\ UNCHANGED rets
           \/ /\ ForkFails
              /\ RunnerFails(p, f)
              /\ UNCHANGED <<pstate, env, cwd, fds, wstatus, ppid, died, prog>>
    /\ UNCHANGED <<tree, dirs, files, ofds, pipes, npipes, diag, evals, evalBy>>

\* lines 177-178 and 187-188: a child of run_in_parallel calls parse_command
ParChild(p) ==
    /\ At(p, "par_child1") \/ At(p, "par_child2")
    /\ LET f == Top(p)
           k == IF f.pc = "par_child1" THEN 1 ELSE 2
       IN  stack' = Push(SetTop(stack, p, [f EXCEPT !.pc = "child_exit"]),
                         p, Frame(Append(f.node, k), "start"))
    /\ UNCHANGED <<tree, dirs, pipes, prog, files, ofds, pstate, env, cwd, fds, wstatus, ppid,
                   nfaults, npipes, diag, evals, evalBy, rets, died>>

\* lines 179, 189, 230, 243: exit(rc) in a child of a runner
ChildExit(p) ==
    /\ Returned(p, "child_exit")
    /\ Terminate(p, ExitedStatus(Top(p).rv), "exit_rc", Top(p).rv)
    /\ UNCHANGED <<tree, dirs, pipes, prog, files, ofds, stack, env, cwd, ppid, nfaults, npipes,
                   diag, evals, evalBy, rets>>

\* lines 192-194 and 247-249: waitpid(pid1, &status1, 0)
Wait1(p) ==
    /\ At(p, "par_wait1") \/ At(p, "pipe_wait1")
    /\ LET f == Top(p)
       IN  \/ /\ Reap(f.pid1)
              /\ stack' = SetTop(stack, p,
                     [f EXCEPT !.status1 = wstatus[f.pid1],
                               !.pc = IF f.pc = "par_wait1" THEN "par_wait2"
                                      ELSE "pipe_wait2"])
              /\ UNCHANGED rets
           \/ /\ WaitFails
              /\ RunnerFails(p, f)
              /\ UNCHANGED pstate
    /\ UNCHANGED <<tree, dirs, pipes, prog, files, ofds, env, cwd, fds, wstatus, ppid, npipes,
                   diag, evals, evalBy, died>>

\* lines 195-198 and 250-253: waitpid(pid2, &status2, 0) and the result
Wait2(p) ==
    /\ At(p, "par_wait2") \/ At(p, "pipe_wait2")
    /\ LET f == Top(p)
           st == wstatus[f.pid2]
           b == IF f.pc = "par_wait2" THEN ParResult(f.status1, st)
                ELSE PipeResult(f.status1, st)
       IN  \/ /\ Reap(f.pid2)
              /\ stack' = SetTop(stack, p,
                     Ret([f EXCEPT !.status2 = st, !.brv = b], BoolToInt(b)))
              /\ rets' = Count(rets, f.node, BoolToInt(b))
           \/ /\ WaitFails
              /\ RunnerFails(p, f)
              /\ UNCHANGED pstate
    /\ UNCHANGED <<tree, dirs, pipes, prog, files, ofds, env, cwd, fds, wstatus, ppid, npipes,
                   diag, evals, evalBy, died>>

\* lines 216-218: pipe(fd)
PipeCreate(p) ==
    /\ At(p, "pipe_pipe")
    /\ LET f == Top(p)
           r == LowestFree(fds[p])
           w == LowestFree([fds[p] EXCEPT ![r] = PipeEnd(f.node, "r")])
       IN  \/ /\ r # -1 /\ w # -1
              /\ fds' = [fds EXCEPT ![p][r] = PipeEnd(f.node, "r"),
                                    ![p][w] = PipeEnd(f.node, "w")]
              /\ npipes' = npipes + 1
              /\ stack' = SetTop(stack, p,
                     [f EXCEPT !.pc = "pipe_fork1", !.fd0 = r, !.fd1 = w])
              /\ UNCHANGED <<rets, nfaults>>
           \/ /\ \/ CanFault /\ nfaults' = nfaults + 1
                 \/ Cardinality(FreeFds(fds[p])) < 2 /\ UNCHANGED nfaults
              /\ RunnerFails(p, f)
              /\ UNCHANGED <<fds, npipes>>
    /\ UNCHANGED <<tree, dirs, pipes, prog, files, ofds, pstate, env, cwd, wstatus, ppid, diag,
                   evals, evalBy, died>>

\* lines 220-223: first fork of run_on_pipe
PipeFork1(p) ==
    /\ At(p, "pipe_fork1")
    /\ LET f == Top(p)
       IN  \/ /\ Spawn(p, Pid(f.node, "c1"), [f EXCEPT !.pc = "pipe_child1"],
                       [f EXCEPT !.pc = "pipe_fork2", !.pid1 = Pid(f.node, "c1")], fds[p])
              /\ UNCHANGED rets
           \/ /\ ForkFails
              /\ RunnerFails(p, f)
              /\ UNCHANGED <<pstate, env, cwd, fds, wstatus, ppid, died, prog>>
    /\ UNCHANGED <<tree, dirs, files, ofds, pipes, npipes, diag, evals, evalBy>>

\* a slip: the write end installed on standard error
PipeChild1OnStderr(p) ==
    /\ At(p, "pipe_child1")
    /\ LET f == Top(p)
       IN  /\ fds' = [fds EXCEPT ![p] =
                        close(dup2(close(@, f.fd0), f.fd1, STDERR_FILENO), f.fd1)]
           /\ stack' = Push(SetTop(stack, p, [f EXCEPT !.pc = "child_exit"]),
                            p, Frame(Append(f.node, 1), "start"))
    /\ UNCHANGED <<tree, dirs, pipes, prog, files, ofds, pstate, env, cwd, wstatus,
                   ppid, nfaults, npipes, diag, evals, evalBy, rets, died>>

\* lines 225-229: the first child puts the write end on its standard output
PipeChild1(p) ==
    /\ At(p, "pipe_child1")
    /\ LET f == Top(p)
       IN  /\ fds' = [fds EXCEPT ![p] =
                        close(dup2(close(@, f.fd0), f.fd1, STDOUT_FILENO), f.fd1)]
           /\ stack' = Push(SetTop(stack, p, [f EXCEPT !.pc = "child_exit"]),
                            p, Frame(Append(f.node, 1), "start"))
    /\ UNCHANGED <<tree, dirs, pipes, prog, files, ofds, pstate, env, cwd, wstatus, ppid, nfaults,
                   npipes, diag, evals, evalBy, rets, died>>

\* lines 233-237: the parent closes the write end and forks again
PipeFork2(p) ==
    /\ At(p, "pipe_fork2")
    /\ LET f == Top(p)
           pf == close(fds[p], f.fd1)
       IN  \/ /\ Spawn(p, Pid(f.node, "c2"), [f EXCEPT !.pc = "pipe_child2"],
                       [f EXCEPT !.pc = "pipe_close", !.pid2 = Pid(f.node, "c2")], pf)
              /\ UNCHANGED rets
           \/ /\ ForkFails
              /\ RunnerFails(p, f)
              /\ fds' = [fds EXCEPT ![p] = pf]
              /\ UNCHANGED <<pstate, env, cwd, wstatus, ppid, died, prog>>
    /\ UNCHANGED <<tree, dirs, files, ofds, pipes, npipes, diag, evals, evalBy>>

\* lines 239-242: the second child puts the read end on its standard input
PipeChild2(p) ==
    /\ At(p, "pipe_child2")
    /\ LET f == Top(p)
       IN  /\ fds' = [fds EXCEPT ![p] = close(dup2(@, f.fd0, STDIN_FILENO), f.fd0)]
           /\ stack' = Push(SetTop(stack, p, [f EXCEPT !.pc = "child_exit"]),
                            p, Frame(Append(f.node, 2), "start"))
    /\ UNCHANGED <<tree, dirs, pipes, prog, files, ofds, pstate, env, cwd, wstatus, ppid, nfaults,
                   npipes, diag, evals, evalBy, rets, died>>

\* line 246: the parent closes the read end
PipeClose(p) ==
    /\ At(p, "pipe_close")
    /\ LET f == Top(p)
       IN  /\ fds' = [fds EXCEPT ![p] = close(@, f.fd0)]
           /\ stack' = SetTop(stack, p, [f EXCEPT !.pc = "pipe_wait1"])
    /\ UNCHANGED <<tree, dirs, pipes, prog, files, ofds, pstate, env, cwd, wstatus, ppid, nfaults,
                   npipes, diag, evals, evalBy, rets, died>>

(***************************************************************************)
(* The specification.                                                      *)
(***************************************************************************)
Next ==
    \/ \E p \in Procs : ParseCommand(p)
    \/ \E p \in Procs : AfterCmd1(p)
    \/ \E p \in Procs : AfterCmd2(p)
    \/ \E p \in Procs : BuiltinCd(p)
    \/ \E p \in Procs : shell_exit(p)
    \/ \E p \in Procs : Assignment(p)
    \/ \E p \in Procs : ExtFork(p)
    \/ \E p \in Procs : ExtChild(p)
    \/ \E p \in Procs : ProgWrite(p)
    \/ \E p \in Procs : ProgRead(p)
    \/ \E p \in Procs : ProgramEnds(p)
    \/ \E p \in Procs : ExtWait(p)
    \/ \E p \in Procs : ParFork1(p)
    \/ \E p \in Procs : ParFork2(p)
    \/ \E p \in Procs : ParChild(p)
    \/ \E p \in Procs : ChildExit(p)
    \/ \E p \in Procs : Wait1(p)
    \/ \E p \in Procs : Wait2(p)
    \/ \E p \in Procs : PipeCreate(p)
    \/ \E p \in Procs : PipeFork1(p)
    \/ \E p \in Procs : PipeChild1(p)
    \/ \E p \in Procs : PipeFork2(p)
    \/ \E p \in Procs : PipeChild2(p)
    \/ \E p \in Procs : PipeClose(p)

Spec == Init /\ [][Next]_vars

(***************************************************************************)
(* Properties.                                                             *)
(***************************************************************************)
\* every frame of every process
Frames == UNION {{stack[p][i] : i \in 1..Len(stack[p])} : p \in Procs}
\* the frames whose call has just returned, of the nodes with operator op
RetFrames(op) == {f \in Frames : f.pc = "ret" /\ NodeAt(tree, f.node).op = op}
NodesWith(op) == {n \in PathsOf(tree) : NodeAt(tree, n).op = op}
Cmd1(n) == Append(n, 1)
Cmd2(n) == Append(n, 2)
HasReturned(n) == rets[n].n > 0
\* a runner's wait for the child c came back with its status
Waited(c) == c \in Procs /\ pstate[c] = "reaped"
\* the process c was forked while evaluating the subtree below n
ForkedUnder(n, c) == IsPrefix(n, c[1])

\* C1: the status parse_command returns for a PIPE node is the status that
\* evaluating cmd2 produced in the second child, whatever cmd1's status was.
C1_PipeReturnsCmd2Status ==
    \A f \in RetFrames("OP_PIPE") :
        (Waited(f.pid1) /\ Waited(f.pid2) /\ HasReturned(Cmd2(f.node)))
            => f.rv = rets[Cmd2(f.node)].v

\* bit i of the two's-complement int x
BitOf(x, i) == (x \div 2^i) % 2
\* r is the bitwise AND of a and b, bit by bit and in the sign
IsBitwiseAnd(r, a, b) ==
    /\ \A i \in 0..30 : BitOf(r, i) = BitOf(a, i) * BitOf(b, i)
    /\ (r < 0) <=> (a < 0 /\ b < 0)

\* C2: in a SEQUENTIAL node cmd2 is evaluated exactly once, after cmd1 has
\* returned and whatever cmd1 returned, and the node returns the bitwise AND
\* of the two statuses.
C2_Sequential ==
    \A n \in NodesWith("OP_SEQUENTIAL") :
        /\ evals[Cmd2(n)] <= 1
        /\ evals[Cmd2(n)] = 1 => rets[Cmd1(n)].n = 1
        /\ \A f \in Frames : f.node = n => f.pc \in {"start", "call1", "call2", "ret"}
        /\ HasReturned(n) =>
              /\ rets[Cmd1(n)].n = 1 /\ evals[Cmd2(n)] = 1 /\ rets[Cmd2(n)].n = 1
              /\ IsBitwiseAnd(rets[n].v, rets[Cmd1(n)].v, rets[Cmd2(n)].v)

\* a SEQUENTIAL node has returned 0 from the two failures 256 and 1
C2_Witness ==
    \E n \in NodesWith("OP_SEQUENTIAL") :
        /\ HasReturned(n) /\ rets[n].v = 0
        /\ rets[Cmd1(n)].v = 256 /\ rets[Cmd2(n)].v = 1

\* cmd2 of the node n has not been evaluated: parse_command was not entered
\* on it and no process was forked for it
NotEvaluated(n) ==
    /\ \A m \in AllPaths : IsPrefix(n, m) => evals[m] = 0
    /\ \A c \in Procs : ~ForkedUnder(n, c)

\* C3: COND_NONZERO does not evaluate cmd2 when cmd1 returned zero, COND_ZERO
\* does not when cmd1 returned non-zero, and the node then returns cmd1's
\* status; otherwise it returns cmd2's status.
C3_Conditional ==
    \A n \in NodesWith("OP_CONDITIONAL_NZERO") \cup NodesWith("OP_CONDITIONAL_ZERO") :
        LET skip == IF NodeAt(tree, n).op = "OP_CONDITIONAL_NZERO"
                    THEN rets[Cmd1(n)].v = 0 ELSE rets[Cmd1(n)].v # 0
        IN  /\ ~HasReturned(Cmd1(n)) => NotEvaluated(Cmd2(n))
            /\ (HasReturned(Cmd1(n)) /\ skip) =>
                  /\ NotEvaluated(Cmd2(n))
                  /\ \A f \in Frames : f.node = n => f.pc \in {"call1", "ret"}
                  /\ HasReturned(n) => rets[n].v = rets[Cmd1(n)].v
            /\ (HasReturned(n) /\ ~skip) =>
                  /\ rets[Cmd2(n)].n = 1 /\ rets[n].v = rets[Cmd2(n)].v

\* a COND_ZERO node has skipped cmd2 after a failing cmd1
C3_Witness ==
    \E n \in NodesWith("OP_CONDITIONAL_ZERO") :
        /\ HasReturned(n) /\ rets[Cmd1(n)].v # 0 /\ NotEvaluated(Cmd2(n))

\* C4: run_in_parallel returns true exactly when both waits succeeded and
\* both wait statuses are non-zero, false in every other case; when both
\* waits succeeded both children have evaluated their subtree.
C4_Parallel ==
    \A f \in RetFrames("OP_PARALLEL") :
        /\ f.brv <=> (/\ Waited(f.pid1) /\ Waited(f.pid2)
                      /\ wstatus[f.pid1] # 0 /\ wstatus[f.pid2] # 0)
        /\ f.rv = BoolToInt(f.brv)
        /\ (Waited(f.pid1) /\ Waited(f.pid2)) =>
              evals[Cmd1(f.node)] = 1 /\ evals[Cmd2(f.node)] = 1

\* run_in_parallel has returned true, and has returned false after two waits
C4_Witness ==
    \E f \in RetFrames("OP_PARALLEL") :
        f.brv /\ Waited(f.pid1) /\ Waited(f.pid2) /\ wstatus[f.pid1] # 0

\* C5: when fork, pipe or wait fails inside a runner, the status
\* parse_command returns for that PARALLEL or PIPE node is non-zero.
C5_RunnerFaultReportsFailure ==
    \A f \in RetFrames("OP_PARALLEL") \cup RetFrames("OP_PIPE") :
        ~(Waited(f.pid1) /\ Waited(f.pid2)) => f.rv # 0

\* the process p has evaluated an exit or quit leaf: it entered the leaf
\* and is no longer about to call shell_exit
ExitDone(p) ==
    \E n \in PathsOf(tree) :
        /\ NodeAt(tree, n).op = "OP_NONE" /\ IsExit(NodeAt(tree, n).scmd)
        /\ evals[n] > 0 /\ evalBy[n] = p
        /\ ~(At(p, "exit") /\ Top(p).node = n)

\* C6 as claimed: once an exit or quit leaf has been evaluated anywhere in
\* the tree, no node of the tree is entered any more.
C6_ExitStopsWholeTree ==
    [][(\E p \in Procs : ExitDone(p)) => evals' = evals]_vars

\* C6 as amended: the process that evaluated the exit or quit leaf has
\* terminated with status 0, stays terminated, and enters no node any more.
C6_ExitEndsProcess ==
    [][\A p \in Procs :
          ExitDone(p) =>
              /\ pstate[p] \in {"zombie", "reaped"} /\ wstatus[p] = 0
              /\ pstate'[p] \in {"zombie", "reaped"} /\ stack'[p] = stack[p]
              /\ \A n \in AllPaths : evals'[n] > evals[n] => evalBy'[n] # p]_vars

\* a forked child has evaluated exit, and the tree has been evaluated to
\* its end by the others
C6_Witness ==
    \E p \in Procs :
        /\ p # Shell /\ ExitDone(p) /\ pstate[p] = "reaped"
        /\ HasReturned(<<>>)
        /\ \E n \in AllPaths : evals[n] > 0 /\ evalBy[n] \notin {p, Shell}

\* the directory a cd leaf with first parameter dir is to change to
CdTarget(dir, e) ==
    IF dir = NoWord \/ dir[1].string \in {"", "~"} THEN e["HOME"]
    ELSE IF dir[1].string = "-" THEN e["OLDPWD"]
    ELSE dir[1].string
\* the tree is one cd leaf and the shell is past it
CdLeafDone == tree \in CdLeaves /\ ~At(Shell, "start") /\ ~At(Shell, "cd")

\* C7: after a cd leaf whose target exists, the working directory is HOME
\* (no argument, "" or "~"), OLDPWD ("-") or the literal argument; cd
\* without argument completes.
C7_CdChangesToTarget ==
    (CdLeafDone /\ CdTarget(tree.scmd.params, env[Shell]) \in dirs) =>
        /\ cwd[Shell] = CdTarget(tree.scmd.params, env[Shell])
        /\ HasReturned(<<>>)

\* C8: a cd leaf returns 0 when the change to its target succeeds and 1
\* when it fails, for every form of the argument ("~", "", "-", a path).
C8_CdStatus ==
    (CdLeafDone /\ tree.scmd.params # NoWord /\ HasReturned(<<>>)) =>
        rets[<<>>].v = IF CdTarget(tree.scmd.params, env[Shell]) \in dirs
                       THEN 0 ELSE 1

\* C9: cd A ; cd B ; cd - leaves the working directory equal to A.
C9_CdDashRoundTrip ==
    (tree \in CdRoundTrips /\ HasReturned(<<>>)) =>
        cwd[Shell] = tree.cmd1.cmd1.scmd.params[1].string

\* C10: an external command returns the exit code of its child when the
\* child ended normally, and 0 when a signal ended it.
C10_ExternalStatus ==
    \A f \in RetFrames("OP_NONE") :
        (IsExternal(NodeAt(tree, f.node).scmd) /\ Waited(f.pid1)) =>
            f.rv = IF WIFEXITED(wstatus[f.pid1])
                   THEN WEXITSTATUS(wstatus[f.pid1]) ELSE 0

\* C11: a child whose execvp failed has written a diagnostic naming the
\* command to its standard error (the err target when the leaf has one),
\* has terminated with a non-zero exit code without entering any node of the
\* tree, and the parent returns a non-zero status for the leaf.
C11_ExecFailure ==
    \A p \in Procs :
        died[p].how = "exec_failed" =>
            LET n == p[1]
                s == NodeAt(tree, n).scmd
            IN  /\ \E d \in diag :
                      /\ d.pid = p /\ d.cmd = s.verb[1].string /\ d.to # Closed
                      /\ s.err # NoWord =>
                            d.to.k = "file" /\ d.to.path = "/start/" \o s.err[1].string
                /\ pstate[p] \in {"zombie", "reaped"}
                /\ WIFEXITED(wstatus[p]) /\ WEXITSTATUS(wstatus[p]) # 0
                /\ stack[p] = <<Frame(n, "ext_child")>>
                /\ \A m \in AllPaths : evalBy[m] # p
                /\ HasReturned(n) => rets[n].v # 0

\* the child of an unknown command has failed to exec, with its stderr
\* redirected, and the shell has returned 256 for the leaf
C11_Witness ==
    \E p \in Procs :
        /\ died[p].how = "exec_failed" /\ Waited(p)
        /\ NodeAt(tree, p[1]).scmd.err # NoWord
        /\ HasReturned(p[1]) /\ rets[p[1]].v = 256

\* C14: a child forked by a runner that called exit(r) is seen by its parent
\* with a zero wait status exactly when r is zero.
C14_ChildStatusKeepsResult ==
    \A p \in Procs :
        died[p].how = "exit_rc" => (wstatus[p] = 0 <=> died[p].arg = 0)

\* the processes forked while evaluating the subtree below n that have not
\* terminated
RunningUnder(n) ==
    {c \in Procs : ForkedUnder(n, c) /\ pstate[c] \in {"run", "prog"}}
OrderedNodes ==
    NodesWith("OP_SEQUENTIAL") \cup NodesWith("OP_CONDITIONAL_NZERO")
        \cup NodesWith("OP_CONDITIONAL_ZERO")

\* C15: in a SEQUENTIAL, COND_ZERO or COND_NONZERO node, once cmd2 has been
\* entered no process forked while evaluating cmd1 is still running.
C15_Cmd1JoinedBeforeCmd2 ==
    \A n \in OrderedNodes :
        evals[Cmd2(n)] > 0 => RunningUnder(Cmd1(n)) = {}

\* the process whose stack holds the frame f
Holder(f) == CHOOSE p \in Procs : \E i \in 1..Len(stack[p]) : stack[p][i] = f

\* C16: when a runner returns, every child it forked has been waited for.
C16_RunnerWaitsForChildren ==
    \A f \in RetFrames("OP_PARALLEL") \cup RetFrames("OP_PIPE") :
        /\ f.pid1 # NoPid => Waited(f.pid1)
        /\ f.pid2 # NoPid => Waited(f.pid2)

\* the step is one of the process q
StepOf(q) == stack'[q] # stack[q] \/ pstate'[q] # pstate[q]

StdStreams(f) == <<f[STDIN_FILENO], f[STDOUT_FILENO], f[STDERR_FILENO]>>
LeafPcs == {"cd", "exit", "assign", "ext_fork", "ext_wait"}

\* C20: a step of a process inside a leaf (cd, assignment, external command
\* in the parent role) that leaves it running leaves its standard input,
\* output and error bindings as they were.
C20_LeafKeepsStdStreams ==
    [][\A p \in Procs :
          (pstate[p] = "run" /\ Top(p).pc \in LeafPcs /\ pstate'[p] = "run") =>
              StdStreams(fds'[p]) = StdStreams(fds[p])]_vars

\* in a pipeline, the leaf whose standard output is the subtree's (the last
\* stage) and the leaf whose standard input is the subtree's (the first)
RECURSIVE LastOf(_)
LastOf(n) == IF NodeAt(tree, n).op = "OP_PIPE" THEN LastOf(Cmd2(n)) ELSE n
RECURSIVE FirstOf(_)
FirstOf(n) == IF NodeAt(tree, n).op = "OP_PIPE" THEN FirstOf(Cmd1(n)) ELSE n
IsProgram(n) ==
    /\ NodeAt(tree, n).op = "OP_NONE" /\ IsExternal(NodeAt(tree, n).scmd)
    /\ NodeAt(tree, n).scmd.verb[1].string \in Installed
\* the PIPE nodes that join two programs which keep the stream the runner
\* gave them
Piped ==
    {n \in NodesWith("OP_PIPE") :
        /\ IsProgram(LastOf(Cmd1(n))) /\ IsProgram(FirstOf(Cmd2(n)))
        /\ NodeAt(tree, LastOf(Cmd1(n))).scmd.out = NoWord
        /\ NodeAt(tree, FirstOf(Cmd2(n))).scmd.in = NoWord}
\* what the program of the leaf n has written to its standard output, read
\* from its standard input
WrittenBy(n) ==
    IF Pid(n, "ext") \in Procs THEN prog[Pid(n, "ext")].out ELSE <<>>
ReadBy(n) ==
    IF Pid(n, "ext") \in Procs THEN prog[Pid(n, "ext")].in ELSE <<>>
SeenEof(n) == Pid(n, "ext") \in Procs /\ prog[Pid(n, "ext")].eof
Running(n) == Pid(n, "ext") \in Procs /\ pstate[Pid(n, "ext")] \in {"run", "prog"}

\* C12: what cmd2 has read from its standard input is at every moment the
\* beginning of what cmd1 has written to its standard output, and once cmd2
\* has seen end-of-stream it is all of it, cmd1 having ended; cat > c
\* as cmd2 then leaves exactly these bytes in c.
C12_PipeCarriesBytes ==
    \A n \in Piped :
        LET w == LastOf(Cmd1(n))
            r == FirstOf(Cmd2(n))
        IN  /\ IsPrefix(ReadBy(r), WrittenBy(w))
            /\ SeenEof(r) => (ReadBy(r) = WrittenBy(w) /\ ~Running(w))
            /\ (SeenEof(r) /\ ~Running(r) /\ NodeAt(tree, r) = CatTo) =>
                  files["/start/c"] = WrittenBy(w)

\* echo | cat > c has returned, cat has read "ab" and then end-of-stream,
\* and c holds "ab"
C12_Witness ==
    /\ tree = Node("OP_PIPE", EchoLeaf, CatTo) /\ HasReturned(<<>>)
    /\ ReadBy(<<2>>) = <<"a", "b">> /\ SeenEof(<<2>>)
    /\ files["/start/c"] = <<"a", "b">>

\* the leaf names one literal path as both its out and its err target
SameTargets(s) == s.out # NoWord /\ s.err # NoWord /\ s.out = s.err
\* the children of external commands whose image has been replaced
Executed == {p \in Procs : p[2] = "ext" /\ died[p].how \in {"alive", "program"}
                                        /\ pstate[p] # "run"}

\* C13: once the image of an external command with identical out and err
\* targets is replaced, its standard output and standard error are the same
\* open file description on that path, whatever the append flags; what the
\* program both wrote to the two streams is in the file in the order
\* written, nothing overwritten.
C13_SameTargetSharesOffset ==
    \A p \in Executed :
        LET s == NodeAt(tree, p[1]).scmd
        IN  SameTargets(s) =>
              /\ pstate[p] = "prog" =>
                    /\ fds[p][STDOUT_FILENO] = fds[p][STDERR_FILENO]
                    /\ fds[p][STDOUT_FILENO].k = "file"
                    /\ fds[p][STDOUT_FILENO].path = "/start/" \o s.out[1].string
              /\ (prog[p].name = "both" /\ pstate[p] # "prog") =>
                    files["/start/" \o s.out[1].string] = <<"a", "b">>

\* both >> f 2>> f has run to its end and f holds "ab"
C13_Witness ==
    /\ tree = BothSame({IO_OUT_APPEND, IO_ERR_APPEND}) /\ HasReturned(<<>>)
    /\ Waited(Pid(<<>>, "ext")) /\ files["/start/f"] = <<"a", "b">>

\* the descriptors of the process p that are an end of the pipe of node n
EndsHeld(p, n) ==
    {fd \in Fds : fds[p][fd] \in {PipeEnd(n, "r"), PipeEnd(n, "w")}}
\* the child c of the PIPE node n is about to evaluate its subtree k
StartsSubtree(c, n, k) ==
    /\ c \in Procs /\ pstate[c] = "run" /\ Len(stack[c]) = 2
    /\ Top(c).node = Append(n, k) /\ Top(c).pc = "start"

\* C17 for the children: the first child starts cmd1 with the write end as
\* its standard output and nowhere else and without the read end, the second
\* starts cmd2 with the read end as its standard input and nowhere else and
\* without the write end.
PipeChildrenEnds ==
    \A n \in NodesWith("OP_PIPE") :
        /\ StartsSubtree(Pid(n, "c1"), n, 1) =>
              /\ fds[Pid(n, "c1")][STDOUT_FILENO] = PipeEnd(n, "w")
              /\ EndsHeld(Pid(n, "c1"), n) = {STDOUT_FILENO}
        /\ StartsSubtree(Pid(n, "c2"), n, 2) =>
              /\ fds[Pid(n, "c2")][STDIN_FILENO] = PipeEnd(n, "r")
              /\ EndsHeld(Pid(n, "c2"), n) = {STDIN_FILENO}
\* C17 for the parent: when run_on_pipe has returned, the process that
\* called it holds neither end of the pipe.
PipeParentEnds ==
    \A f \in RetFrames("OP_PIPE") : EndsHeld(Holder(f), f.node) = {}

\* C17: pipe descriptor discipline in the two children and, on every path,
\* in the parent.
C17_PipeDescriptors == PipeChildrenEnds /\ PipeParentEnds

\* every process of cmd1's subtree of the PIPE node n has terminated
Cmd1Ended(n) ==
    /\ Pid(n, "c1") \in Procs
    /\ \A c \in Procs :
          (c = Pid(n, "c1") \/ ForkedUnder(Cmd1(n), c)) =>
              pstate[c] \in {"zombie", "reaped"}
\* the program at the head of cmd2 is reading its standard input
ReadsInput(n) ==
    /\ Pid(n, "ext") \in Procs /\ pstate[Pid(n, "ext")] = "prog"
    /\ prog[Pid(n, "ext")].reads

\* the process p has terminated, or has returned from parse_command on the
\* root of the tree
Finished(p) ==
    \/ pstate[p] \in {"zombie", "reaped"}
    \/ pstate[p] = "run" /\ Len(stack[p]) = 1 /\ Top(p).pc = "ret"
\* the process p is in waitpid for a child that has not terminated
BlockedInWait(p) ==
    /\ pstate[p] = "run" /\ ~CanFault
    /\ \/ Top(p).pc \in {"ext_wait", "par_wait1", "pipe_wait1"}
             /\ pstate[Top(p).pid1] # "zombie"
       \/ Top(p).pc \in {"par_wait2", "pipe_wait2"}
             /\ pstate[Top(p).pid2] # "zombie"
\* the program of p is in write on a full pipe that some process could read
BlockedInWrite(p) ==
    /\ pstate[p] = "prog" /\ prog[p].todo # <<>>
    /\ LET d == fds[p][Head(prog[p].todo).fd]
       IN  /\ d.k = "pipe" /\ d.mode = "w"
           /\ Holders(d.pipe, "r") # {} /\ Len(pipes[d.pipe]) >= PipeCap
\* the program of p is in read on an empty pipe that some process could write
BlockedInRead(p) ==
    /\ pstate[p] = "prog" /\ prog[p].todo = <<>>
    /\ prog[p].reads /\ ~prog[p].eof
    /\ LET d == fds[p][STDIN_FILENO]
       IN  /\ d.k = "pipe" /\ d.mode = "r"
           /\ pipes[d.pipe] = <<>> /\ Holders(d.pipe, "w") # {}
\* no process can take a step any more
Stuck ==
    \A p \in Procs :
        Finished(p) \/ BlockedInWait(p) \/ BlockedInWrite(p) \/ BlockedInRead(p)
\* a program of cmd2 reads the pipe of n, every process of cmd1 is gone and
\* the program has not seen end-of-stream
StarvedReader(n) ==
    /\ Cmd1Ended(n) /\ ReadsInput(FirstOf(Cmd2(n)))
    /\ ~SeenEof(FirstOf(Cmd2(n)))

\* C18: the evaluation never comes to a halt with a reader of a pipe still
\* waiting for end-of-stream after cmd1 has terminated, nor with a PIPE node
\* that was entered and has not returned (programs end at end-of-stream
\* and on SIGPIPE).
C18_PipeEndsAndReturns ==
    Stuck =>
        /\ \A n \in Piped : ~StarvedReader(n)
        /\ \A n \in NodesWith("OP_PIPE") : evals[n] > 0 => HasReturned(n)

====
